---- MODULE Spec2Model ----
(***************************************************************************)
(* The task dispatcher of McpServer/server.py: the AppContext (client      *)
(* registry, task store, round-robin index), the WebSocket connection      *)
(* handler and the draw_image tool, as one state machine.                  *)
(*                                                                         *)
(* The program runs on one asyncio event loop, so every stretch of code    *)
(* between two awaits is one atomic action.  draw_image suspends at        *)
(* `await websocket.send` (line 283) and at `await asyncio.sleep` (line    *)
(* 415); websocket_handler suspends between messages.                      *)
(*                                                                         *)
(* Identifiers made by uuid.uuid4() are modelled as fresh naturals.        *)
(* time.time() is the integer clock `now`.  Client.last_active and         *)
(* Client.url are written but never read by any decision and are left out. *)
(***************************************************************************)
EXTENDS Naturals, Integers, Sequences, FiniteSets, TLC

(* ------------------------------ bounds --------------------------------- *)

\* connections accepted over a run
MaxConns == 1
\* tasks created over a run
MaxTasks == 3
\* concurrent draw_image calls
NumCalls == 2
\* the clock stops advancing here
MaxTime == 61
\* registry size and cursor range of the selection specification
MaxRegistry == 3
MaxCursor == 4
\* tasks in the store of the registry specification
MaxSeedTasks == 2
\* operations applied in a run of the registry specification
MaxOps == 2
\* tasks created over a run of the fair specification
MaxLiveTasks == 2
\* tasks created over a run of the connection specification
MaxConnTasks == 1

(* ------------------------- program constants --------------------------- *)

\* Task.timeout default, line 54
TaskTimeout == 60
\* poll_interval, line 388
PollInterval == 1
\* len(app_context.tasks) > 50, line 354
HighWater == 50
\* max_age_hours default, line 175
MaxAgeHours == 24
\* max_age_seconds, line 178
MaxAgeSeconds == MaxAgeHours * 3600

\* Client.current_task_id = None
NoTask == 0
\* get_idle_client() returning None
NoClient == 0

\* the steps by which the clock advances; each is at least PollInterval
TickSteps == {30, 31}

\* prompts: strings as sequences of characters; " " stands for whitespace
Prompts == { <<>>, <<" ", " ">>, <<" ", "a">> }

\* the non-empty URL lists a collectedImageUrls message may carry
UrlLists == { <<"u1", "u2">> }

Calls == 1..NumCalls

\* the texts str(e) of the exceptions an await may raise
ExceptionTexts == { "", "boom" }

VARIABLES
    clients,            \* AppContext.clients: client id -> Client
    clientOrder,        \* list(AppContext.clients.keys()): insertion order
    tasks,              \* AppContext.tasks: task id -> Task
    detached,           \* Task objects deleted from AppContext.tasks that a
                        \* draw_image call may still hold in its local `task`
    round_robin_index,  \* AppContext.round_robin_index
    conn,               \* per accepted connection: "open" (websocket.state is
                        \* OPEN), "closed" (not OPEN, handler still running),
                        \* "gone" (websocket_handler has ended)
    now,                \* time.time()
    pc,                 \* per draw_image caller: "idle" (no call in flight),
                        \* "sending" (in websocket.send), "sleeping" (in
                        \* asyncio.sleep)
    taskOf,             \* local `task` (its id) of each call
    clientOf,           \* local `idle_client` (its id) of each call
    start_time,         \* local `start_time` of each call
    wake_at,            \* when the call's asyncio.sleep(poll_interval) is due
    returned,           \* what the step just taken returned from draw_image:
                        \* the task the call had created (NoTask if none) and
                        \* the JSON object; NoReturn after any other step
    delivered,          \* history: the url list of the result event of each
                        \* task whose event arrived while the task was
                        \* pending and younger than its timeout
    picked              \* history: for each get_idle_client call of the
                        \* selection specification, the index it started from
                        \* and the client it returned; for each operation of
                        \* the registry specification, its name and arguments

vars == << clients, clientOrder, tasks, detached, round_robin_index, conn, now,
           pc, taskOf, clientOf, start_time, wake_at, returned, delivered, picked >>

appVars == << clients, clientOrder, tasks, detached, round_robin_index >>
callVars == << pc, taskOf, clientOf, start_time, wake_at >>

(* ----------------------------- helpers --------------------------------- *)

EmptyMap == [x \in {} |-> 0]

Range(s) == { s[i] : i \in 1..Len(s) }

\* the sequence s without the element x
Without(s, x) == SelectSeq(s, LAMBDA y : y # x)

\* str.strip(): drop leading and trailing whitespace
RECURSIVE LStrip(_)
LStrip(s) == IF s # <<>> /\ Head(s) = " " THEN LStrip(Tail(s)) ELSE s

RECURSIVE RStrip(_)
RStrip(s) == IF s # <<>> /\ s[Len(s)] = " " THEN RStrip(SubSeq(s, 1, Len(s) - 1)) ELSE s

strip(s) == RStrip(LStrip(s))

\* a test that forgets strip()
IsBlank_NoStrip(prompt) == prompt = <<>>

\* `not prompt or not prompt.strip()`, line 341
IsBlank(prompt) == prompt = <<>> \/ strip(prompt) = <<>>

(* ------------------------ AppContext as a value ------------------------ *)

\* The shared AppContext, so that its methods compose as functions.
Ctx == [ clients |-> clients, order |-> clientOrder, tasks |-> tasks,
         detached |-> detached, rr |-> round_robin_index ]

Commit(c) ==
    /\ clients' = c.clients
    /\ clientOrder' = c.order
    /\ tasks' = c.tasks
    /\ detached' = c.detached
    /\ round_robin_index' = c.rr

IdleClient == [ status |-> "idle", current_task_id |-> NoTask ]

\* add_client: a new Client is IDLE with no current task
add_client(c, client_id) ==
    [ c EXCEPT !.clients = client_id :> IdleClient @@ c.clients,
               !.order = IF client_id \in DOMAIN c.clients
                         THEN c.order ELSE Append(c.order, client_id) ]

\* a remove_client that fails every task of the client, finished or not
remove_client_FailsAll(c, client_id) ==
    IF client_id \in DOMAIN c.clients
    THEN [ c EXCEPT
             !.tasks = [ t \in DOMAIN c.tasks |->
                           IF c.tasks[t].client_id = client_id
                           THEN [ c.tasks[t] EXCEPT !.status = "error" ]
                           ELSE c.tasks[t] ],
             !.clients = [ k \in DOMAIN c.clients \ {client_id} |-> c.clients[k] ],
             !.order = Without(c.order, client_id) ]
    ELSE c

\* a remove_client that deletes the client and leaves its tasks as they are
remove_client_KeepsTasks(c, client_id) ==
    IF client_id \in DOMAIN c.clients
    THEN [ c EXCEPT
             !.clients = [ k \in DOMAIN c.clients \ {client_id} |-> c.clients[k] ],
             !.order = Without(c.order, client_id) ]
    ELSE c

\* remove_client: the client's pending tasks become "error", then it is deleted
remove_client(c, client_id) ==
    IF client_id \in DOMAIN c.clients
    THEN [ c EXCEPT
             !.tasks = [ t \in DOMAIN c.tasks |->
                           IF c.tasks[t].client_id = client_id
                              /\ c.tasks[t].status = "pending"
                           THEN [ c.tasks[t] EXCEPT !.status = "error" ]
                           ELSE c.tasks[t] ],
             !.clients = [ k \in DOMAIN c.clients \ {client_id} |-> c.clients[k] ],
             !.order = Without(c.order, client_id) ]
    ELSE c

set_client_busy(c, client_id, task_id) ==
    IF client_id \in DOMAIN c.clients
    THEN [ c EXCEPT !.clients[client_id] =
                       [ status |-> "busy", current_task_id |-> task_id ] ]
    ELSE c

\* a set_client_idle that forgets to clear current_task_id
set_client_idle_KeepsTask(c, client_id) ==
    IF client_id \in DOMAIN c.clients
    THEN [ c EXCEPT !.clients[client_id].status = "idle" ]
    ELSE c

set_client_idle(c, client_id) ==
    IF client_id \in DOMAIN c.clients
    THEN [ c EXCEPT !.clients[client_id] = IdleClient ]
    ELSE c

\* uuid.uuid4(): an id no Task object has had
NewTaskId(c) == Cardinality(DOMAIN c.tasks \cup DOMAIN c.detached) + 1

create_task(c, prompt, client_id) ==
    [ c EXCEPT !.tasks = NewTaskId(c) :>
                           [ prompt |-> prompt, client_id |-> client_id,
                             create_time |-> now, timeout |-> TaskTimeout,
                             image_urls |-> <<>>, status |-> "pending" ]
                         @@ c.tasks ]

\* a complete_task that does not release the client
complete_task_NoRelease(c, task_id, image_urls) ==
    IF task_id \in DOMAIN c.tasks
    THEN [ c EXCEPT !.tasks[task_id].image_urls = image_urls,
                    !.tasks[task_id].status = "completed" ]
    ELSE c

complete_task(c, task_id, image_urls) ==
    IF task_id \in DOMAIN c.tasks
    THEN set_client_idle(
           [ c EXCEPT !.tasks[task_id].image_urls = image_urls,
                      !.tasks[task_id].status = "completed" ],
           c.tasks[task_id].client_id)
    ELSE c

\* a timeout_task that does not release the client
timeout_task_NoRelease(c, task_id) ==
    IF task_id \in DOMAIN c.tasks
    THEN [ c EXCEPT !.tasks[task_id].status = "timeout" ]
    ELSE c

timeout_task(c, task_id) ==
    IF task_id \in DOMAIN c.tasks
    THEN set_client_idle([ c EXCEPT !.tasks[task_id].status = "timeout" ],
                         c.tasks[task_id].client_id)
    ELSE c

\* an is_timeout that fires at the deadline itself
is_timeout_AtDeadline(task) == now - task.create_time >= task.timeout

\* Task.is_timeout
is_timeout(task) == now - task.create_time > task.timeout

\* timeout_task applied to each task of a set, one after the other
RECURSIVE TimeoutEach(_, _)
TimeoutEach(c, ids) ==
    IF ids = {} THEN c
    ELSE LET t == CHOOSE x \in ids : \A y \in ids : x <= y
         IN  TimeoutEach(timeout_task(c, t), ids \ {t})

\* check_timeouts: the loop reads each task's status when it reaches it, and
\* timeout_task changes no other task, so the order of the loop is immaterial
check_timeouts(c) ==
    TimeoutEach(c, { t \in DOMAIN c.tasks :
                       c.tasks[t].status = "pending" /\ is_timeout(c.tasks[t]) })

\* a cleanup_old_tasks that deletes every task, whatever its age
cleanup_old_tasks_DropsBound(c) ==
    [ c EXCEPT
        !.tasks = [ t \in {} |-> c.tasks[t] ],
        !.detached = [ t \in DOMAIN c.detached \cup DOMAIN c.tasks |->
                         IF t \in DOMAIN c.tasks THEN c.tasks[t] ELSE c.detached[t] ] ]

\* a cleanup that deletes only the oldest-numbered aged task on each run
cleanup_old_tasks_OneAtATime(c) ==
    LET aged == { t \in DOMAIN c.tasks : now - c.tasks[t].create_time > MaxAgeSeconds }
        old  == { t \in aged : \A u \in aged : t <= u }
    IN  [ c EXCEPT
            !.tasks = [ t \in DOMAIN c.tasks \ old |-> c.tasks[t] ],
            !.detached = [ t \in DOMAIN c.detached \cup old |->
                             IF t \in old THEN c.tasks[t] ELSE c.detached[t] ] ]

\* cleanup_old_tasks: delete the tasks older than max_age_hours
cleanup_old_tasks(c) ==
    LET old == { t \in DOMAIN c.tasks : now - c.tasks[t].create_time > MaxAgeSeconds }
    IN  [ c EXCEPT
            !.tasks = [ t \in DOMAIN c.tasks \ old |-> c.tasks[t] ],
            !.detached = [ t \in DOMAIN c.detached \cup old |->
                             IF t \in old THEN c.tasks[t] ELSE c.detached[t] ] ]

RECURSIVE RemoveEach(_, _)
RemoveEach(c, ids) ==
    IF ids = {} THEN c
    ELSE LET k == CHOOSE x \in ids : \A y \in ids : x <= y
         IN  RemoveEach(remove_client(c, k), ids \ {k})

\* cleanup_disconnected_clients: remove every client whose websocket is not OPEN
cleanup_disconnected_clients(c) ==
    RemoveEach(c, { k \in DOMAIN c.clients : conn[k] # "open" })

\* a client test that does not look at the connection
IsIdleOpen_AnyConnection(c, client_id) == c.clients[client_id].status = "idle"

\* a client test that does not look at the status
IsIdleOpen_AnyStatus(c, client_id) == conn[client_id] = "open"

\* the client test of get_idle_client, lines 110-112
IsIdleOpen(c, client_id) ==
    c.clients[client_id].status = "idle" /\ conn[client_id] = "open"

\* a get_idle_client that leaves the index on the client it found
get_idle_client_NoAdvance(c) ==
    LET n == Len(c.order)
        hits == { i \in 0..(n - 1) :
                    IsIdleOpen(c, c.order[((c.rr + i) % n) + 1]) }
    IN  IF n = 0 \/ hits = {}
        THEN [ ctx |-> c, client |-> NoClient ]
        ELSE LET i == CHOOSE x \in hits : \A y \in hits : x <= y
                 index == (c.rr + i) % n
             IN  [ ctx |-> [ c EXCEPT !.rr = index ],
                   client |-> c.order[index + 1] ]

\* get_idle_client: the first idle, open client scanning from round_robin_index;
\* the value is the context with the index advanced and the client found
get_idle_client(c) ==
    LET n == Len(c.order)
        hits == { i \in 0..(n - 1) :
                    IsIdleOpen(c, c.order[((c.rr + i) % n) + 1]) }
    IN  IF n = 0 \/ hits = {}
        THEN [ ctx |-> c, client |-> NoClient ]
        ELSE LET i == CHOOSE x \in hits : \A y \in hits : x <= y
                 index == (c.rr + i) % n
             IN  [ ctx |-> [ c EXCEPT !.rr = (index + 1) % n ],
                   client |-> c.order[index + 1] ]

\* lines 347-355 of draw_image
Housekeeping(c) ==
    LET c1 == cleanup_disconnected_clients(check_timeouts(c))
    IN  IF Cardinality(DOMAIN c1.tasks) > HighWater THEN cleanup_old_tasks(c1) ELSE c1

\* the Task object a call's local `task` refers to, in the store or deleted from it
TaskObject(c, task_id) ==
    IF task_id \in DOMAIN c.tasks THEN c.tasks[task_id] ELSE c.detached[task_id]

\* a failed delivery that leaves the task's status alone
SetObjectError_Skipped(c, task_id) == c

\* `task.status = "error"` through the local reference, lines 378 and 443
SetObjectError(c, task_id) ==
    IF task_id \in DOMAIN c.tasks
    THEN [ c EXCEPT !.tasks[task_id].status = "error" ]
    ELSE [ c EXCEPT !.detached[task_id].status = "error" ]

(* ------------------------- what draw_image returns --------------------- *)

NoResult == [ status |-> "none" ]

\* the step just taken was no return of draw_image
NoReturn == [ task |-> NoTask, value |-> NoResult ]

\* lines 342-345
EmptyPromptError == [ status |-> "error", message |-> "Prompt cannot be empty" ]

\* lines 360-363
NoIdleError == [ status |-> "error", message |-> "No idle WebSocket clients available" ]

\* lines 379-382
SendFailedError == [ status |-> "error", message |-> "Failed to send task to client" ]

\* lines 400-403
SuccessResult(urls) == [ status |-> "success", image_urls |-> urls ]

\* lines 406-413: message is f"Task {current_task.status}"
TaskFailedError(status, urls) ==
    [ status |-> "error",
      message |-> IF status = "timeout" THEN "Task timeout" ELSE "Task error",
      received_urls |-> urls ]

\* lines 420-427
TimeoutError(urls) ==
    [ status |-> "error", message |-> "Task timeout", received_urls |-> urls ]

\* lines 434-437
CancelledError ==
    [ status |-> "error", message |-> "Task cancelled due to client disconnect" ]

\* lines 444-447: message is f"Internal error: {str(e)}"
InternalErrorResult(text) ==
    [ status |-> "error", message |-> "Internal error: " \o text ]

(* ------------------------------ Init ----------------------------------- *)

Init ==
    /\ clients = EmptyMap
    /\ clientOrder = <<>>
    /\ tasks = EmptyMap
    /\ detached = EmptyMap
    /\ round_robin_index = 0
    /\ conn = <<>>
    /\ now = 0
    /\ pc = [ d \in Calls |-> "idle" ]
    /\ taskOf = [ d \in Calls |-> NoTask ]
    /\ clientOf = [ d \in Calls |-> NoClient ]
    /\ start_time = [ d \in Calls |-> 0 ]
    /\ wake_at = [ d \in Calls |-> 0 ]
    /\ returned = NoReturn
    /\ delivered = EmptyMap
    /\ picked = <<>>

(* ----------------------- the WebSocket handler ------------------------- *)

\* websocket_handler up to its message loop: a new connection is registered;
\* at most `limit` connections are ever accepted
Accept(limit) ==
    /\ Len(conn) < limit
    /\ conn' = Append(conn, "open")
    /\ Commit(add_client(Ctx, Len(conn) + 1))
    /\ returned' = NoReturn
    /\ UNCHANGED << now, callVars, delivered, picked >>

Connect == Accept(MaxConns)

\* the peer or the network closes the connection: websocket.state leaves OPEN
\* while the handler has not yet run its `finally`
ConnectionLost(k) ==
    /\ k \in DOMAIN conn
    /\ conn[k] = "open"
    /\ conn' = [ conn EXCEPT ![k] = "closed" ]
    /\ returned' = NoReturn
    /\ UNCHANGED << appVars, now, callVars, delivered, picked >>

\* a handler that ends without remove_client
HandlerEnd_KeepsClient(k) ==
    /\ k \in DOMAIN conn
    /\ conn[k] = "closed"
    /\ conn' = [ conn EXCEPT ![k] = "gone" ]
    /\ returned' = NoReturn
    /\ UNCHANGED << appVars, now, callVars, delivered, picked >>

\* the handler's `finally`: remove_client
HandlerEnd(k) ==
    /\ k \in DOMAIN conn
    /\ conn[k] = "closed"
    /\ conn' = [ conn EXCEPT ![k] = "gone" ]
    /\ Commit(remove_client(Ctx, k))
    /\ returned' = NoReturn
    /\ UNCHANGED << now, callVars, delivered, picked >>

\* a handle_image_url_event that registers the sender if it is unknown
handle_image_url_event_Registers(c, client_id, urls) ==
    IF client_id \notin DOMAIN c.clients
    THEN add_client(c, client_id)
    ELSE IF c.clients[client_id].current_task_id \in DOMAIN c.tasks
    THEN complete_task(c, c.clients[client_id].current_task_id, urls)
    ELSE c

\* handle_image_url_event
handle_image_url_event(c, client_id, urls) ==
    IF client_id \notin DOMAIN c.clients
       \/ c.clients[client_id].current_task_id = NoTask
    THEN c
    ELSE LET task_id == c.clients[client_id].current_task_id
         IN  IF task_id \in DOMAIN c.tasks
             THEN complete_task(c, task_id, urls)
             ELSE c

\* a collectedImageUrls message with a non-empty url list, lines 241-245; the
\* handler still yields the messages received before the connection closed
ImageUrlEvent(k, urls) ==
    /\ k \in DOMAIN conn
    /\ conn[k] # "gone"
    /\ Commit(handle_image_url_event(Ctx, k, urls))
    /\ delivered' =
         IF k \in DOMAIN clients
            /\ clients[k].current_task_id \in DOMAIN tasks
            /\ tasks[clients[k].current_task_id].status = "pending"
            /\ now - tasks[clients[k].current_task_id].create_time
                 < tasks[clients[k].current_task_id].timeout
         THEN clients[k].current_task_id :> urls @@ delivered
         ELSE delivered
    /\ returned' = NoReturn
    /\ UNCHANGED << conn, now, callVars, picked >>

(* ------------------------------ draw_image ----------------------------- *)

\* the call returns r: its locals are gone and the caller may call again
Finish(d, r) ==
    /\ returned' = [ task |-> taskOf[d], value |-> r ]
    /\ pc' = [ pc EXCEPT ![d] = "idle" ]
    /\ taskOf' = [ taskOf EXCEPT ![d] = NoTask ]
    /\ clientOf' = [ clientOf EXCEPT ![d] = NoClient ]
    /\ start_time' = [ start_time EXCEPT ![d] = 0 ]
    /\ wake_at' = [ wake_at EXCEPT ![d] = 0 ]

\* lines 339-345: an empty or blank prompt is rejected before anything else
DrawImageReject(d, prompt) ==
    /\ pc[d] = "idle"
    /\ IsBlank(prompt)
    /\ Finish(d, EmptyPromptError)
    /\ UNCHANGED << appVars, conn, now, delivered, picked >>

\* lines 347-363: housekeeping, then no idle client
DrawImageNoIdle(d, prompt) ==
    /\ pc[d] = "idle"
    /\ ~IsBlank(prompt)
    /\ LET sel == get_idle_client(Housekeeping(Ctx))
       IN  /\ sel.client = NoClient
           /\ Commit(sel.ctx)
    /\ Finish(d, NoIdleError)
    /\ UNCHANGED << conn, now, delivered, picked >>

\* lines 347-374: housekeeping, selection, create_task, set_client_busy, and
\* send_to_client up to `await websocket.send` (the websocket was OPEN a moment
\* ago in get_idle_client, so line 278 does not return); at most `limit` tasks
\* are ever created
Dispatch(d, prompt, limit) ==
    /\ pc[d] = "idle"
    /\ ~IsBlank(prompt)
    /\ LET sel == get_idle_client(Housekeeping(Ctx))
           task_id == NewTaskId(sel.ctx)
       IN  /\ sel.client # NoClient
           /\ task_id <= limit
           /\ Commit(set_client_busy(create_task(sel.ctx, prompt, sel.client),
                                     sel.client, task_id))
           /\ taskOf' = [ taskOf EXCEPT ![d] = task_id ]
           /\ clientOf' = [ clientOf EXCEPT ![d] = sel.client ]
    /\ pc' = [ pc EXCEPT ![d] = "sending" ]
    /\ returned' = NoReturn
    /\ UNCHANGED << conn, now, start_time, wake_at, delivered, picked >>

DrawImageDispatch(d, prompt) == Dispatch(d, prompt, MaxTasks)

\* one draw_image call from its entry to its first await or return
DrawImage(d, prompt) ==
    \/ DrawImageReject(d, prompt)
    \/ DrawImageNoIdle(d, prompt)
    \/ DrawImageDispatch(d, prompt)

\* a wait loop without a deadline
WaitLoop_NoDeadline(d, st) ==
    LET t == taskOf[d]
    IN  IF t \in DOMAIN tasks /\ tasks[t].status = "completed"
        THEN /\ Finish(d, SuccessResult(tasks[t].image_urls))
             /\ UNCHANGED appVars
        ELSE IF t \in DOMAIN tasks /\ tasks[t].status \in { "timeout", "error" }
        THEN /\ Finish(d, TaskFailedError(tasks[t].status, tasks[t].image_urls))
             /\ UNCHANGED appVars
        ELSE /\ pc' = [ pc EXCEPT ![d] = "sleeping" ]
             /\ start_time' = [ start_time EXCEPT ![d] = st ]
             /\ wake_at' = [ wake_at EXCEPT ![d] = now + PollInterval ]
             /\ returned' = NoReturn
             /\ UNCHANGED << appVars, taskOf, clientOf >>

\* lines 391-427 from the loop test on, with start_time st: one pass of the
\* wait loop, ending in a return or in asyncio.sleep
WaitLoop(d, st) ==
    LET t == taskOf[d]
    IN  IF now - st < TaskObject(Ctx, t).timeout /\ t \in DOMAIN tasks
        THEN IF tasks[t].status = "completed"
             THEN /\ Finish(d, SuccessResult(tasks[t].image_urls))
                  /\ UNCHANGED appVars
             ELSE IF tasks[t].status \in { "timeout", "error" }
             THEN /\ Finish(d, TaskFailedError(tasks[t].status, tasks[t].image_urls))
                  /\ UNCHANGED appVars
             ELSE /\ pc' = [ pc EXCEPT ![d] = "sleeping" ]
                  /\ start_time' = [ start_time EXCEPT ![d] = st ]
                  /\ wake_at' = [ wake_at EXCEPT ![d] = now + PollInterval ]
                  /\ returned' = NoReturn
                  /\ UNCHANGED << appVars, taskOf, clientOf >>
        ELSE \* the loop ran out, or the task disappeared (break): lines 417-427
             /\ Commit(timeout_task(Ctx, t))
             /\ Finish(d, TimeoutError(TaskObject(Ctx, t).image_urls))

\* websocket.send succeeded: lines 283-285, 384-389 and the first loop pass
SendOk(d) ==
    /\ pc[d] = "sending"
    /\ conn[clientOf[d]] = "open"
    /\ WaitLoop(d, now)
    /\ UNCHANGED << conn, now, delivered, picked >>

\* websocket.send raised ConnectionClosed: lines 286-288 and 375-382
SendFail(d) ==
    /\ pc[d] = "sending"
    /\ conn[clientOf[d]] # "open"
    /\ Commit(SetObjectError(set_client_idle(Ctx, clientOf[d]), taskOf[d]))
    /\ Finish(d, SendFailedError)
    /\ UNCHANGED << conn, now, delivered, picked >>

\* asyncio.sleep(poll_interval) is over: the next loop pass
Wake(d) ==
    /\ pc[d] = "sleeping"
    /\ now >= wake_at[d]
    /\ WaitLoop(d, start_time[d])
    /\ UNCHANGED << conn, now, delivered, picked >>

\* a cancellation handler that returns without timeout_task
Cancel_NoCleanup(d) ==
    /\ pc[d] \in { "sending", "sleeping" }
    /\ Finish(d, CancelledError)
    /\ UNCHANGED << appVars, conn, now, delivered, picked >>

\* asyncio.CancelledError raised at an await: lines 429-437
Cancel(d) ==
    /\ pc[d] \in { "sending", "sleeping" }
    /\ Commit(timeout_task(Ctx, taskOf[d]))
    /\ Finish(d, CancelledError)
    /\ UNCHANGED << conn, now, delivered, picked >>

\* websocket.send raises an exception other than ConnectionClosed, whatever the
\* state of the connection: send_to_client catches it and returns False, lines
\* 289-291, and draw_image goes on as after any failed send, lines 375-382
SendRaises(d) ==
    /\ pc[d] = "sending"
    /\ Commit(SetObjectError(set_client_idle(Ctx, clientOf[d]), taskOf[d]))
    /\ Finish(d, SendFailedError)
    /\ UNCHANGED << conn, now, delivered, picked >>

\* asyncio.sleep raises an exception other than a cancellation, with str(e) =
\* text: lines 438-447.  Nothing in the program makes it do so, so the two
\* steps are left out of Next and taken only by the fair pruning specification.
InternalError(d, text) ==
    /\ pc[d] = "sleeping"
    /\ Commit(SetObjectError(set_client_idle(Ctx, clientOf[d]), taskOf[d]))
    /\ Finish(d, InternalErrorResult(text))
    /\ UNCHANGED << conn, now, delivered, picked >>

\* get_connection_status: check_timeouts, then a read-only report
GetConnectionStatus ==
    /\ Commit(check_timeouts(Ctx))
    /\ Ctx # check_timeouts(Ctx)
    /\ returned' = NoReturn
    /\ UNCHANGED << conn, now, callVars, delivered, picked >>

\* time passes
Tick(delta) ==
    /\ now + delta <= MaxTime
    /\ now' = now + delta
    /\ returned' = NoReturn
    /\ UNCHANGED << appVars, conn, callVars, delivered, picked >>

Next ==
    \/ Connect
    \/ \E k \in DOMAIN conn : ConnectionLost(k)
    \/ \E k \in DOMAIN conn : HandlerEnd(k)
    \/ \E k \in DOMAIN conn, urls \in UrlLists : ImageUrlEvent(k, urls)
    \/ \E d \in Calls, prompt \in Prompts : DrawImageReject(d, prompt)
    \/ \E d \in Calls, prompt \in Prompts : DrawImageNoIdle(d, prompt)
    \/ \E d \in Calls, prompt \in Prompts : DrawImageDispatch(d, prompt)
    \/ \E d \in Calls : SendOk(d)
    \/ \E d \in Calls : SendFail(d)
    \/ \E d \in Calls : Wake(d)
    \/ \E d \in Calls : Cancel(d)
    \/ GetConnectionStatus
    \/ \E delta \in TickSteps : Tick(delta)

Spec == Init /\ [][Next]_vars

(* ------------------- the selection specification ----------------------- *)

\* A registry the program can be in: clients 1..n in registration order, each
\* idle or busy with its own pending task, each connection open or closed, and
\* any round-robin index (the registry may have shrunk since it was set).
SelectInit ==
    \E n \in 0..MaxRegistry :
      \E st \in [ 1..n -> { "idle", "busy" } ], op \in [ 1..n -> { "open", "closed" } ] :
        /\ clientOrder = [ i \in 1..n |-> i ]
        /\ clients = [ k \in 1..n |->
                         IF st[k] = "busy"
                         THEN [ status |-> "busy", current_task_id |-> k ]
                         ELSE IdleClient ]
        /\ tasks = [ t \in { k \in 1..n : st[k] = "busy" } |->
                       [ prompt |-> <<"a">>, client_id |-> t, create_time |-> 0,
                         timeout |-> TaskTimeout, image_urls |-> <<>>,
                         status |-> "pending" ] ]
        /\ conn = op
        /\ round_robin_index \in 0..MaxCursor
        /\ detached = EmptyMap
        /\ now = 0
        /\ pc = [ d \in Calls |-> "idle" ]
        /\ taskOf = [ d \in Calls |-> NoTask ]
        /\ clientOf = [ d \in Calls |-> NoClient ]
        /\ start_time = [ d \in Calls |-> 0 ]
        /\ wake_at = [ d \in Calls |-> 0 ]
        /\ returned = NoReturn
        /\ delivered = EmptyMap
        /\ picked = <<>>

\* one get_idle_client call, with no status or registry change around it
SelectIdle ==
    /\ Len(picked) <= MaxRegistry
    /\ LET sel == get_idle_client(Ctx)
       IN  /\ Commit(sel.ctx)
           /\ picked' = Append(picked, [ cursor |-> round_robin_index,
                                         client |-> sel.client ])
    /\ UNCHANGED << conn, now, callVars, returned, delivered >>

SelectNext == SelectIdle

SpecSelect == SelectInit /\ [][SelectNext]_vars

(* -------------------- the registry specification ---------------------- *)

\* the url list a client collects for the prompt of task t
UrlsOf(t) == << "img" \o ToString(t) >>

\* the ascending sequence of the elements of a set of numbers
RECURSIVE Ascending(_)
Ascending(S) ==
    IF S = {} THEN <<>>
    ELSE LET m == CHOOSE x \in S : \A y \in S : x <= y
         IN  << m >> \o Ascending(S \ {m})

\* Stores and registries the program can be in, several clients included:
\* any set of registered clients; tasks of any status, a pending one only for
\* a registered client (remove_client fails the others), a completed one with
\* its urls; each client idle, or busy with a pending task of its own, which
\* is the last task that was dispatched to it.  A pending task may belong to a
\* client that is idle or busy with a later task.
RegistryInit ==
    \E R \in SUBSET (1..MaxRegistry), m \in 0..MaxSeedTasks :
      \E owner \in [ 1..m -> 1..MaxRegistry ],
         st \in [ 1..m -> { "pending", "completed", "timeout", "error" } ],
         cur \in [ R -> 0..m ] :
        /\ \A t \in 1..m : st[t] = "pending" => owner[t] \in R
        /\ \A k \in R : cur[k] # NoTask => (st[cur[k]] = "pending" /\ owner[cur[k]] = k)
        /\ \A k \in R, t \in 1..m : (cur[k] # NoTask /\ owner[t] = k) => t <= cur[k]
        /\ clientOrder = Ascending(R)
        /\ clients = [ k \in R |->
                         IF cur[k] = NoTask THEN IdleClient
                         ELSE [ status |-> "busy", current_task_id |-> cur[k] ] ]
        /\ tasks = [ t \in 1..m |->
                       [ prompt |-> <<"a">>, client_id |-> owner[t], create_time |-> 0,
                         timeout |-> TaskTimeout,
                         image_urls |-> IF st[t] = "completed" THEN UrlsOf(t) ELSE <<>>,
                         status |-> st[t] ] ]
        /\ conn = [ k \in 1..MaxRegistry |-> IF k \in R THEN "open" ELSE "closed" ]
        /\ round_robin_index \in { 0, MaxCursor }
        /\ detached = EmptyMap
        /\ now = 0
        /\ pc = [ d \in Calls |-> "idle" ]
        /\ taskOf = [ d \in Calls |-> NoTask ]
        /\ clientOf = [ d \in Calls |-> NoClient ]
        /\ start_time = [ d \in Calls |-> 0 ]
        /\ wake_at = [ d \in Calls |-> 0 ]
        /\ returned = NoReturn
        /\ delivered = EmptyMap
        /\ picked = <<>>

\* remove_client(client_id), from the handler's `finally` or from
\* cleanup_disconnected_clients, for a registered or an unknown id
Unregister(k) ==
    /\ Len(picked) < MaxOps
    /\ Commit(remove_client(Ctx, k))
    /\ picked' = Append(picked, [ op |-> "remove_client", client |-> k ])
    /\ UNCHANGED << conn, now, callVars, returned, delivered >>

\* the url lists client k may send: any list, or the images of a task it was sent
EventUrls(k) ==
    UrlLists \cup { UrlsOf(t) : t \in { u \in DOMAIN tasks : tasks[u].client_id = k } }

\* handle_image_url_event(client_id, urls) for a registered or an unknown id
ResultEvent(k, urls) ==
    /\ Len(picked) < MaxOps
    /\ Commit(handle_image_url_event(Ctx, k, urls))
    /\ picked' = Append(picked, [ op |-> "handle_image_url_event", client |-> k ])
    /\ UNCHANGED << conn, now, callVars, returned, delivered >>

RegistryNext ==
    \/ \E k \in 1..MaxRegistry : Unregister(k)
    \/ \E k \in 1..MaxRegistry : \E urls \in EventUrls(k) : ResultEvent(k, urls)

SpecRegistry == RegistryInit /\ [][RegistryNext]_vars

(* --------------------- the pruning specification ----------------------- *)

\* tasks the pruning specification may hold: the seeded ones and the new ones
MaxPruneTasks == HighWater + 2

\* a task that finished a day ago
AgedTask ==
    [ prompt |-> <<"a">>, client_id |-> 1, create_time |-> 0 - MaxAgeSeconds,
      timeout |-> TaskTimeout, image_urls |-> << "u1", "u2" >>, status |-> "completed" ]

\* A server that has run for a day: one client, and HighWater or HighWater + 1
\* tasks created max_age_seconds ago, all finished, except that the last one may
\* still be pending with its call suspended in websocket.send ever since.
PruneInitWith(n, stuck) ==
      /\ clientOrder = << 1 >>
      /\ clients = [ k \in {1} |->
                       IF stuck THEN [ status |-> "busy", current_task_id |-> n ]
                       ELSE IdleClient ]
      /\ tasks = [ t \in 1..n |->
                     IF stuck /\ t = n
                     THEN [ AgedTask EXCEPT !.status = "pending", !.image_urls = <<>> ]
                     ELSE AgedTask ]
      /\ detached = EmptyMap
      /\ round_robin_index = 0
      /\ conn = << "open" >>
      /\ now = 0
      /\ pc = [ d \in Calls |-> IF stuck /\ d = 1 THEN "sending" ELSE "idle" ]
      /\ taskOf = [ d \in Calls |-> IF stuck /\ d = 1 THEN n ELSE NoTask ]
      /\ clientOf = [ d \in Calls |-> IF stuck /\ d = 1 THEN 1 ELSE NoClient ]
      /\ start_time = [ d \in Calls |-> 0 ]
      /\ wake_at = [ d \in Calls |-> 0 ]
      /\ returned = NoReturn
      /\ delivered = EmptyMap
      /\ picked = <<>>

PruneInit ==
    \E n \in { HighWater, HighWater + 1 }, stuck \in BOOLEAN : PruneInitWith(n, stuck)

PruneDispatch(d, prompt) == Dispatch(d, prompt, MaxPruneTasks)

PruneNext ==
    \/ \E k \in DOMAIN conn : ConnectionLost(k)
    \/ \E k \in DOMAIN conn : HandlerEnd(k)
    \/ \E k \in DOMAIN conn, urls \in UrlLists : ImageUrlEvent(k, urls)
    \/ \E d \in Calls, prompt \in Prompts : DrawImageReject(d, prompt)
    \/ \E d \in Calls, prompt \in Prompts : DrawImageNoIdle(d, prompt)
    \/ \E d \in Calls, prompt \in Prompts : PruneDispatch(d, prompt)
    \/ \E d \in Calls : SendOk(d)
    \/ \E d \in Calls : SendFail(d)
    \/ \E d \in Calls : Wake(d)
    \/ \E d \in Calls : Cancel(d)
    \/ GetConnectionStatus
    \/ \E delta \in TickSteps : Tick(delta)

SpecPrune == PruneInit /\ [][PruneNext]_vars

(* --------------------- the fair specification -------------------------- *)

\* time passes; past MaxTime it goes on, in steps of one size, while the wait
\* loop of some call has not run out
LiveTick(delta) ==
    /\ \/ now + delta <= MaxTime
       \/ /\ \A e \in TickSteps : delta <= e
          /\ \E d \in Calls : pc[d] = "sleeping" /\ now - start_time[d] < TaskTimeout
    /\ now' = now + delta
    /\ returned' = NoReturn
    /\ UNCHANGED << appVars, conn, callVars, delivered, picked >>

LiveDispatch(d, prompt) == Dispatch(d, prompt, MaxLiveTasks)

\* websocket.send returns or raises
SendEnds(d) == SendOk(d) \/ SendFail(d)

LiveNext ==
    \/ Connect
    \/ \E k \in DOMAIN conn : ConnectionLost(k)
    \/ \E k \in DOMAIN conn : HandlerEnd(k)
    \/ \E k \in DOMAIN conn, urls \in UrlLists : ImageUrlEvent(k, urls)
    \/ \E d \in Calls, prompt \in Prompts : DrawImageReject(d, prompt)
    \/ \E d \in Calls, prompt \in Prompts : DrawImageNoIdle(d, prompt)
    \/ \E d \in Calls, prompt \in Prompts : LiveDispatch(d, prompt)
    \/ \E d \in Calls : SendEnds(d)
    \/ \E d \in Calls : Wake(d)
    \/ \E d \in Calls : Cancel(d)
    \/ GetConnectionStatus
    \/ \E delta \in TickSteps : LiveTick(delta)

\* The event loop runs every task that is ready: a send ends, a sleep that is
\* due returns, the handler of a closed connection reaches its `finally`; and
\* time passes.  Nothing obliges clients to connect or answer, or callers to
\* call or cancel.
Fairness ==
    /\ \A d \in Calls : WF_vars(SendEnds(d))
    /\ \A d \in Calls : WF_vars(Wake(d))
    /\ \A k \in 1..MaxConns : WF_vars(HandlerEnd(k))
    /\ WF_vars(\E delta \in TickSteps : LiveTick(delta))

LiveSpec == Init /\ [][LiveNext]_vars /\ Fairness

(* ------------------ the fair pruning specification -------------------- *)

\* The pruning specification under the fairness of the event loop, with an
\* exception raised at an await as one more way for a call to end.
LivePruneNext ==
    \/ \E k \in DOMAIN conn : ConnectionLost(k)
    \/ \E k \in DOMAIN conn : HandlerEnd(k)
    \/ \E k \in DOMAIN conn, urls \in UrlLists : ImageUrlEvent(k, urls)
    \/ \E d \in Calls, prompt \in Prompts : DrawImageReject(d, prompt)
    \/ \E d \in Calls, prompt \in Prompts : DrawImageNoIdle(d, prompt)
    \/ \E d \in Calls, prompt \in Prompts : PruneDispatch(d, prompt)
    \/ \E d \in Calls : SendEnds(d)
    \/ \E d \in Calls : Wake(d)
    \/ \E d \in Calls : Cancel(d)
    \/ \E d \in Calls : SendRaises(d)
    \/ \E d \in Calls, text \in ExceptionTexts : InternalError(d, text)
    \/ GetConnectionStatus
    \/ \E delta \in TickSteps : LiveTick(delta)

\* the store is above the high-water mark and its last task is still pending
LivePruneInit == PruneInitWith(HighWater + 1, TRUE)

LivePruneSpec == LivePruneInit /\ [][LivePruneNext]_vars /\ Fairness

(* ------------------- the connection specification --------------------- *)

\* Several connections come and go while calls dispatch to them; at most
\* MaxConnTasks tasks are created.
ConnConnect == Accept(MaxRegistry)

ConnDispatch(d, prompt) == Dispatch(d, prompt, MaxConnTasks)

ConnNext ==
    \/ ConnConnect
    \/ \E k \in DOMAIN conn : ConnectionLost(k)
    \/ \E k \in DOMAIN conn : HandlerEnd(k)
    \/ \E k \in DOMAIN conn, urls \in UrlLists : ImageUrlEvent(k, urls)
    \/ \E d \in Calls, prompt \in Prompts : DrawImageReject(d, prompt)
    \/ \E d \in Calls, prompt \in Prompts : DrawImageNoIdle(d, prompt)
    \/ \E d \in Calls, prompt \in Prompts : ConnDispatch(d, prompt)
    \/ \E d \in Calls : SendOk(d)
    \/ \E d \in Calls : SendFail(d)
    \/ \E d \in Calls : Wake(d)
    \/ \E d \in Calls : Cancel(d)
    \/ GetConnectionStatus
    \/ \E delta \in TickSteps : Tick(delta)

SpecConn == Init /\ [][ConnNext]_vars

(* ------------------------------ claims --------------------------------- *)

Terminal(status) == status \in { "completed", "timeout", "error" }

\* C1: once a task's status is completed, timeout or error, no later step
\* changes it.  (Refuted: the forced timeout at the end of the wait loop, the
\* cancellation handler and the delivery-failure path overwrite it.)
C1_TerminalStatusIsFinal ==
    [][ \A t \in DOMAIN tasks :
          (Terminal(tasks[t].status) /\ t \in DOMAIN tasks')
            => tasks'[t].status = tasks[t].status ]_vars

\* C2: no two pending tasks have the same client_id.  (Refuted.)
C2_OnePendingTaskPerClient ==
    \A t1, t2 \in DOMAIN tasks :
      ( /\ tasks[t1].status = "pending"
        /\ tasks[t2].status = "pending"
        /\ tasks[t1].client_id = tasks[t2].client_id ) => t1 = t2

\* C3: every registered client has a current task if and only if it is busy.
C3_BusyIffBound ==
    \A k \in DOMAIN clients :
      (clients[k].current_task_id # NoTask) <=> (clients[k].status = "busy")

\* C3 witness: one client has been bound and released (it is idle, unbound, and
\* a task of its own has ended) and a call is in flight on a busy client
C3_Witness ==
    /\ \E k \in DOMAIN clients, t \in DOMAIN tasks :
         /\ clients[k].status = "busy"
         /\ clients[k].current_task_id = t
         /\ tasks[t].status = "pending"
    /\ \E t \in DOMAIN tasks : Terminal(tasks[t].status)

AllIdleOpen ==
    \A k \in DOMAIN clients : clients[k].status = "idle" /\ conn[k] = "open"

\* C4: with n registered clients, all idle and open, the j-th of consecutive
\* get_idle_client calls returns the client j-1 places after the starting
\* index (modulo n) in registration order, so n calls return each client
\* exactly once and none twice before all others.
C4_RoundRobin ==
    LET n == Len(clientOrder)
    IN  (n > 0 /\ AllIdleOpen) =>
          /\ \A j \in 1..Len(picked) :
               picked[j].client = clientOrder[((picked[1].cursor + j - 1) % n) + 1]
          /\ \A i, j \in 1..Len(picked) :
               (i < j /\ j <= n) => picked[i].client # picked[j].client
          /\ Len(picked) >= n =>
               { picked[j].client : j \in 1..n } = Range(clientOrder)

\* C4 witness: three idle clients, an index beyond the registry size, three calls
C4_Witness ==
    /\ Len(clientOrder) = 3
    /\ AllIdleOpen
    /\ Len(picked) = 3
    /\ picked[1].cursor = 4
    /\ << picked[1].client, picked[2].client, picked[3].client >> = << 2, 3, 1 >>

\* the call that returned in the step just taken had created task t and was
\* neither cancelled nor failed to deliver
ReturnedFrom(t) ==
    /\ returned.task = t
    /\ t # NoTask
    /\ returned.value # CancelledError
    /\ returned.value # SendFailedError

\* the client a task was dispatched to, and whether it is still bound to it
Released(t) ==
    LET k == TaskObject(Ctx, t).client_id
    IN  k \in DOMAIN clients => clients[k].current_task_id # t

\* C5: a call whose task received its result event with url list U while
\* pending and before its timeout had elapsed returns success with exactly U,
\* the task completed with U and its client released.  (Refuted: the wait
\* loop's forced timeout overrides a completion that arrived during the last
\* sleep.)
C5_ResultBeforeTimeoutSucceeds ==
    \A t \in DOMAIN delivered :
      ReturnedFrom(t) =>
        /\ returned.value = SuccessResult(delivered[t])
        /\ TaskObject(Ctx, t).status = "completed"
        /\ TaskObject(Ctx, t).image_urls = delivered[t]
        /\ Released(t)

\* the case of C6: the step just taken returned from a call that was not
\* cancelled, whose task received no result event and whose client is still
\* registered with its connection open
TimedOutCase(t) ==
    /\ returned.task = t
    /\ t # NoTask
    /\ returned.value # CancelledError
    /\ TaskObject(Ctx, t).image_urls = <<>>
    /\ TaskObject(Ctx, t).client_id \in DOMAIN clients
    /\ conn[TaskObject(Ctx, t).client_id] = "open"

\* C6 as stated: such a call returns the timeout error, not before the
\* timeout has elapsed, its task is "timeout" and its client is idle with no
\* bound task when it returns.  (Refuted: another call may have bound the
\* client again after housekeeping timed the task out.)
C6_TimeoutLeavesClientIdle ==
    \A t \in DOMAIN tasks \cup DOMAIN detached :
      TimedOutCase(t) =>
        /\ returned.value = TimeoutError(<<>>)
        /\ now - TaskObject(Ctx, t).create_time >= TaskObject(Ctx, t).timeout
        /\ TaskObject(Ctx, t).status = "timeout"
        /\ clients[TaskObject(Ctx, t).client_id] = IdleClient

\* C6 amended: ... and its client is no longer bound to the task: idle with no
\* bound task, or busy with a task created later.
C6_TimeoutReleasesClient ==
    \A t \in DOMAIN tasks \cup DOMAIN detached :
      TimedOutCase(t) =>
        /\ returned.value = TimeoutError(<<>>)
        /\ now - TaskObject(Ctx, t).create_time >= TaskObject(Ctx, t).timeout
        /\ TaskObject(Ctx, t).status = "timeout"
        /\ \/ clients[TaskObject(Ctx, t).client_id] = IdleClient
           \/ /\ clients[TaskObject(Ctx, t).client_id].status = "busy"
              /\ clients[TaskObject(Ctx, t).client_id].current_task_id > t

\* C6 witness: the wait loop ran out on a task without result, and the client
\* is idle at the return
C6_Witness ==
    \E t \in DOMAIN tasks :
      /\ TimedOutCase(t)
      /\ returned.value = TimeoutError(<<>>)
      /\ tasks[t].status = "timeout"
      /\ clients[tasks[t].client_id] = IdleClient

\* a call that was waiting for a task whose client is gone and that has no
\* result returns, in this step, status error with an empty list of urls
WaitingCallReturnsError(d) ==
    ( /\ pc[d] = "sleeping"
      /\ pc'[d] = "idle"
      /\ returned'.value # CancelledError
      /\ TaskObject(Ctx, taskOf[d]).client_id \notin DOMAIN clients
      /\ TaskObject(Ctx, taskOf[d]).image_urls = <<>> )
    => /\ returned'.task = taskOf[d]
       /\ returned'.value.status = "error"
       /\ "received_urls" \in DOMAIN returned'.value
       /\ returned'.value.received_urls = <<>>

\* C7 as stated: when a client leaves the registry, every pending task
\* dispatched to it that has no result yet becomes "error"; a client whose
\* handler has ended is not in the registry; and a call that was waiting for
\* such a task returns status error with an empty list of received urls.
\* (Refuted: housekeeping that finds the task overdue and the connection
\* closed forces the task to "timeout" before it removes the client.)
C7_DisconnectFailsTask ==
    [][ /\ \A k \in DOMAIN clients :
             k \notin DOMAIN clients' =>
               \A t \in DOMAIN tasks :
                 ( /\ tasks[t].client_id = k
                   /\ tasks[t].status = "pending"
                   /\ tasks[t].image_urls = <<>> )
                 => /\ t \in DOMAIN tasks'
                    /\ tasks'[t].status = "error"
                    /\ tasks'[t].image_urls = <<>>
        /\ \A k \in DOMAIN conn' :
             conn'[k] = "gone" => k \notin DOMAIN clients'
        /\ \A d \in Calls : WaitingCallReturnsError(d)
      ]_vars

\* C7 amended: ... every pending task dispatched to it that has no result yet
\* and whose timeout has not elapsed becomes "error" ...
C7_DisconnectFailsTaskInTime ==
    [][ /\ \A k \in DOMAIN clients :
             k \notin DOMAIN clients' =>
               \A t \in DOMAIN tasks :
                 ( /\ tasks[t].client_id = k
                   /\ tasks[t].status = "pending"
                   /\ tasks[t].image_urls = <<>>
                   /\ now - tasks[t].create_time <= tasks[t].timeout )
                 => /\ t \in DOMAIN tasks'
                    /\ tasks'[t].status = "error"
                    /\ tasks'[t].image_urls = <<>>
        /\ \A k \in DOMAIN conn' :
             conn'[k] = "gone" => k \notin DOMAIN clients'
        /\ \A d \in Calls : WaitingCallReturnsError(d)
      ]_vars

\* C7 witness: a call has just returned "Task error" with no urls for a task
\* whose client is gone from the registry
C7_Witness ==
    \E t \in DOMAIN tasks :
      /\ returned.task = t
      /\ returned.value = TaskFailedError("error", <<>>)
      /\ tasks[t].status = "error"
      /\ tasks[t].client_id \notin DOMAIN clients
      /\ conn[tasks[t].client_id] = "gone"

\* a prompt that is empty or all whitespace
OnlyWhitespace(prompt) == \A i \in 1..Len(prompt) : prompt[i] = " "

Overdue(t) ==
    tasks[t].status = "pending" /\ now - tasks[t].create_time > tasks[t].timeout

\* client k is idle and open once overdue pending tasks have released their
\* clients and the clients with a closed connection are dropped
AvailableAfterHousekeeping(k) ==
    /\ k \in DOMAIN clients
    /\ conn[k] = "open"
    /\ \/ clients[k].status = "idle"
       \/ \E t \in DOMAIN tasks : Overdue(t) /\ tasks[t].client_id = k

\* housekeeping has nothing to do
NothingToClean ==
    /\ \A t \in DOMAIN tasks : ~Overdue(t)
    /\ \A k \in DOMAIN clients : conn[k] = "open"
    /\ Cardinality(DOMAIN tasks) <= HighWater

\* C8 as stated: a call made when no registered client is idle and open
\* returns the no-idle-client error, creates no task, marks no client busy and
\* leaves the task store unchanged.  (Refuted: housekeeping runs first and
\* may free the client of an overdue task, which the call then takes.)
C8_NoIdleClientRejects ==
    [][ \A d \in Calls, prompt \in Prompts :
          ( /\ DrawImage(d, prompt)
            /\ ~OnlyWhitespace(prompt)
            /\ \A k \in DOMAIN clients :
                 ~(clients[k].status = "idle" /\ conn[k] = "open") )
          => /\ returned'.value = NoIdleError
             /\ tasks' = tasks
             /\ \A k \in DOMAIN clients' : clients'[k].status = "busy" => clients'[k] = clients[k]
      ]_vars

\* C8 amended: a call made when no registered client is idle and open once
\* housekeeping has run returns the no-idle-client error, creates no task and
\* marks no client busy; it leaves registry and task store unchanged when
\* housekeeping had nothing to do.
C8_NoIdleAfterHousekeeping ==
    [][ \A d \in Calls, prompt \in Prompts :
          ( /\ DrawImage(d, prompt)
            /\ ~OnlyWhitespace(prompt)
            /\ \A k \in DOMAIN clients : ~AvailableAfterHousekeeping(k) )
          => /\ returned'.value = NoIdleError
             /\ returned'.task = NoTask
             /\ DOMAIN tasks' \subseteq DOMAIN tasks
             /\ \A k \in DOMAIN clients' : clients'[k].status = "busy" => clients'[k] = clients[k]
             /\ NothingToClean => UNCHANGED appVars
      ]_vars

\* C8 witness: the no-idle-client error has just been returned while a client
\* is registered, open and busy with a pending task
C8_Witness ==
    /\ returned.value = NoIdleError
    /\ \E k \in DOMAIN clients :
         /\ conn[k] = "open"
         /\ clients[k].status = "busy"
         /\ clients[k].current_task_id \in DOMAIN tasks
         /\ tasks[clients[k].current_task_id].status = "pending"

\* the only registered client is busy with task t
OnlyClientBusyWith(k, t) ==
    /\ clientOrder = << k >>
    /\ clients[k].status = "busy"
    /\ clients[k].current_task_id = t
    /\ t \in DOMAIN tasks

\* C9 as stated: with the only registered client busy with T1, a new call
\* returns the no-idle-client error and leaves T1 and the client as they
\* were.  (Refuted: housekeeping forces an overdue T1 to "timeout" and the call
\* takes the freed client.)
C9_BusyClientUntouched ==
    [][ \A d \in Calls, prompt \in Prompts, k \in DOMAIN clients, t \in DOMAIN tasks :
          ( /\ DrawImage(d, prompt)
            /\ ~OnlyWhitespace(prompt)
            /\ OnlyClientBusyWith(k, t) )
          => /\ returned'.value = NoIdleError
             /\ t \in DOMAIN tasks'
             /\ tasks'[t] = tasks[t]
             /\ clients' = clients
      ]_vars

\* C9 amended: ... provided no pending task is overdue and the client's
\* connection is open.
C9_BusyClientUntouchedInTime ==
    [][ \A d \in Calls, prompt \in Prompts, k \in DOMAIN clients, t \in DOMAIN tasks :
          ( /\ DrawImage(d, prompt)
            /\ ~OnlyWhitespace(prompt)
            /\ OnlyClientBusyWith(k, t)
            /\ \A u \in DOMAIN tasks : ~Overdue(u)
            /\ conn[k] = "open" )
          => /\ returned'.value = NoIdleError
             /\ t \in DOMAIN tasks'
             /\ tasks'[t] = tasks[t]
             /\ clients' = clients
      ]_vars

\* C9 witness: the no-idle-client error has just been returned, the only
\* client is busy with a pending task exactly at its deadline
C9_Witness ==
    /\ returned.value = NoIdleError
    /\ \E k \in DOMAIN clients, t \in DOMAIN tasks :
         /\ OnlyClientBusyWith(k, t)
         /\ conn[k] = "open"
         /\ tasks[t].status = "pending"
         /\ now - tasks[t].create_time = tasks[t].timeout

\* C10: a call with an empty or all-whitespace prompt returns the empty-prompt
\* error and changes nothing: no task, no client, no index, no housekeeping.
C10_BlankPromptRejected ==
    [][ \A d \in Calls, prompt \in Prompts :
          (DrawImage(d, prompt) /\ OnlyWhitespace(prompt))
          => /\ returned'.value = EmptyPromptError
             /\ returned'.task = NoTask
             /\ UNCHANGED << appVars, conn >>
      ]_vars

\* C10 witness: the empty-prompt error has just been returned while an overdue
\* pending task, which housekeeping would have timed out, is still pending
C10_Witness ==
    /\ returned.value = EmptyPromptError
    /\ \E t \in DOMAIN tasks : Overdue(t)

\* C11 as stated: a call that was cancelled after it had bound a task to a
\* client returns with its task in a terminal state and the task's client, if
\* still registered, idle with no bound task.  (Refuted where the task has been
\* timed out and pruned by housekeeping and the client dispatched to again:
\* timeout_task finds no such task and the client stays busy with the later
\* task.)
C11_CancelReleases ==
    \A t \in DOMAIN tasks \cup DOMAIN detached :
      (returned.task = t /\ returned.value = CancelledError)
      => /\ Terminal(TaskObject(Ctx, t).status)
         /\ TaskObject(Ctx, t).client_id \in DOMAIN clients
              => clients[TaskObject(Ctx, t).client_id] = IdleClient

\* the client is busy with a pending task created after t
BusyWithLaterTask(k, t) ==
    /\ clients[k].status = "busy"
    /\ clients[k].current_task_id > t
    /\ clients[k].current_task_id \in DOMAIN tasks
    /\ tasks[clients[k].current_task_id].status = "pending"

\* C11 amended: a call that was cancelled after it had bound a task to a client
\* returns with its task in a terminal state and the task's client, if still
\* registered, no longer bound to it: idle with no bound task or, the task
\* having been pruned from the store, busy with a pending task created later.
C11_CancelReleasesBinding ==
    \A t \in DOMAIN tasks \cup DOMAIN detached :
      (returned.task = t /\ returned.value = CancelledError)
      => /\ Terminal(TaskObject(Ctx, t).status)
         /\ TaskObject(Ctx, t).client_id \in DOMAIN clients
              => \/ clients[TaskObject(Ctx, t).client_id] = IdleClient
                 \/ /\ t \in DOMAIN detached
                    /\ BusyWithLaterTask(TaskObject(Ctx, t).client_id, t)

\* C11 witness: a call has just been cancelled whose task, timed out with no
\* result, had been pruned; its client is open and busy with a later task
C11_Witness ==
    \E t \in DOMAIN detached :
      /\ returned.task = t
      /\ returned.value = CancelledError
      /\ detached[t].status = "timeout"
      /\ detached[t].image_urls = <<>>
      /\ detached[t].client_id \in DOMAIN clients
      /\ conn[detached[t].client_id] = "open"
      /\ BusyWithLaterTask(detached[t].client_id, t)

\* C14: a call whose delivery failed returns the delivery-failed error straight
\* from the send (it never slept in the wait loop), its task is "error" and the
\* client it had selected, if still registered, is idle with no bound task.
C14_SendFailureReleases ==
    [][ \A d \in Calls :
          (pc[d] # "idle" /\ pc'[d] = "idle" /\ returned'.value = SendFailedError)
          => /\ pc[d] = "sending"
             /\ returned'.task = taskOf[d]
             /\ \/ /\ taskOf[d] \in DOMAIN tasks'
                   /\ tasks'[taskOf[d]].status = "error"
                \/ /\ taskOf[d] \in DOMAIN detached'
                   /\ detached'[taskOf[d]].status = "error"
             /\ clientOf[d] \in DOMAIN clients' => clients'[clientOf[d]] = IdleClient
      ]_vars

\* C14 witness: the delivery-failed error has just been returned for a task
\* whose client is still registered (its handler has not ended) and idle
C14_Witness ==
    \E t \in DOMAIN tasks :
      /\ returned.task = t
      /\ returned.value = SendFailedError
      /\ tasks[t].status = "error"
      /\ tasks[t].client_id \in DOMAIN clients
      /\ conn[tasks[t].client_id] = "closed"
      /\ clients[tasks[t].client_id] = IdleClient

\* C15: every pending task whose client is still registered has that client
\* busy with this very task.  (Refuted: the timeout of a task that had already
\* finished sets the client idle while it serves a later, pending task.)
C15_PendingTaskHoldsClient ==
    \A t \in DOMAIN tasks :
      (tasks[t].status = "pending" /\ tasks[t].client_id \in DOMAIN clients)
      => /\ clients[tasks[t].client_id].status = "busy"
         /\ clients[tasks[t].client_id].current_task_id = t

\* the cases of C20: the sender is not registered, has no bound task, or is
\* bound to a task that is not in the store
Unmatched(k) ==
    \/ k \notin DOMAIN clients
    \/ clients[k].current_task_id = NoTask
    \/ clients[k].current_task_id \notin DOMAIN tasks

\* C20: a result event whose sender is not in the registry, has no bound task
\* or is bound to a task missing from the store changes no client, no task and
\* not the round-robin index, and leaves the connection as it was.
C20_UnmatchedEventDropped ==
    [][ \A k \in DOMAIN conn :
          ( /\ Unmatched(k)
            /\ \/ \E urls \in UrlLists : ImageUrlEvent(k, urls)
               \/ \E urls \in EventUrls(k) : ResultEvent(k, urls) )
          => UNCHANGED << appVars, conn >>
      ]_vars

\* C20 witness: an event of an unregistered sender and an event of an idle
\* client have been handled while another client is busy with a pending task
C20_Witness ==
    /\ Len(picked) = 2
    /\ picked[1].op = "handle_image_url_event"
    /\ picked[2].op = "handle_image_url_event"
    /\ picked[1].client \notin DOMAIN clients
    /\ picked[2].client \in DOMAIN clients
    /\ clients[picked[2].client] = IdleClient
    /\ \E k \in DOMAIN clients :
         /\ clients[k].status = "busy"
         /\ tasks[clients[k].current_task_id].status = "pending"

\* what remove_client(k) is to do
Unregistered(k) ==
    IF k \in DOMAIN clients
    THEN /\ DOMAIN clients' = DOMAIN clients \ {k}
         /\ \A j \in DOMAIN clients' : clients'[j] = clients[j]
         /\ clientOrder' = SelectSeq(clientOrder, LAMBDA j : j # k)
         /\ DOMAIN tasks' = DOMAIN tasks
         /\ \A t \in DOMAIN tasks :
              tasks'[t] = IF tasks[t].client_id = k /\ tasks[t].status = "pending"
                          THEN [ tasks[t] EXCEPT !.status = "error" ]
                          ELSE tasks[t]
         /\ UNCHANGED << detached, round_robin_index >>
    ELSE UNCHANGED appVars

\* C18: remove_client(k) removes client k and moves to "error" exactly the
\* pending tasks whose client is k; the other tasks, the other clients, their
\* order and the round-robin index are unchanged; for an id that is not
\* registered (a second call included) nothing changes.
C18_UnregisterFrame ==
    [][ /\ \A k \in 1..MaxRegistry : Unregister(k) => Unregistered(k)
        /\ \A k \in DOMAIN conn : HandlerEnd(k) => Unregistered(k)
      ]_vars

\* C18 witness: remove_client ran twice for the same client; a pending task of
\* that client is now "error", a finished task of it is as it was, and another
\* client is still registered and busy with its pending task
C18_Witness ==
    /\ Len(picked) = 2
    /\ picked[1] = picked[2]
    /\ picked[1].op = "remove_client"
    /\ picked[1].client \notin DOMAIN clients
    /\ \E t, u \in DOMAIN tasks :
         /\ tasks[t].client_id = picked[1].client
         /\ tasks[t].status = "error"
         /\ tasks[u].client_id # picked[1].client
         /\ tasks[u].status = "pending"
         /\ tasks[u].client_id \in DOMAIN clients
         /\ clients[tasks[u].client_id].current_task_id = u

\* C19: a result event that client k sends for a task t which is already
\* terminal changes the status and the urls of no task.  (Refuted: the event
\* carries no task id; handle_image_url_event completes whatever task the
\* client is bound to now, with the urls collected for t.)
C19_LateCompletionDropped ==
    [][ \A k \in 1..MaxRegistry, t \in DOMAIN tasks :
          ( /\ tasks[t].client_id = k
            /\ Terminal(tasks[t].status)
            /\ ResultEvent(k, UrlsOf(t)) )
          => /\ DOMAIN tasks' = DOMAIN tasks
             /\ \A u \in DOMAIN tasks :
                  /\ tasks'[u].status = tasks[u].status
                  /\ tasks'[u].image_urls = tasks[u].image_urls
      ]_vars

\* the registered clients that are idle with an open connection
Available == { k \in DOMAIN clients : clients[k].status = "idle" /\ conn[k] = "open" }

\* the client at offset j from the cursor, taken modulo the client count
ClientAt(cursor, j) ==
    clientOrder[(((cursor % Len(clientOrder)) + j) % Len(clientOrder)) + 1]

\* C17: for any cursor and registry, get_idle_client returns the first client
\* in cyclic order from the cursor (modulo the client count) that is idle with
\* an open connection and moves the cursor to the position after it; it returns
\* none, with the cursor unchanged, exactly when no such client is registered;
\* it changes no client and no task.
C17_SelectIdleScan ==
    [][ SelectIdle =>
          /\ UNCHANGED << clients, clientOrder, tasks, detached >>
          /\ IF Available = {}
             THEN /\ picked'[Len(picked')].client = NoClient
                  /\ round_robin_index' = round_robin_index
             ELSE \E j \in 0..(Len(clientOrder) - 1) :
                    /\ ClientAt(round_robin_index, j) \in Available
                    /\ \A h \in 0..(j - 1) : ClientAt(round_robin_index, h) \notin Available
                    /\ picked'[Len(picked')].client = ClientAt(round_robin_index, j)
                    /\ round_robin_index'
                         = (((round_robin_index % Len(clientOrder)) + j) + 1) % Len(clientOrder)
      ]_vars

\* C17 witness: a call that started from an index beyond the end of the client
\* list skipped the client at that position (busy or closed) and returned
\* another one
C17_Witness ==
    \E i \in 1..Len(picked) :
      /\ Len(clientOrder) >= 2
      /\ picked[i].cursor >= Len(clientOrder)
      /\ picked[i].client # NoClient
      /\ picked[i].client # ClientAt(picked[i].cursor, 0)
      /\ ClientAt(picked[i].cursor, 0) \notin Available

\* C16: every busy client's current_task_id names a task that is in the
\* store, is pending and has that client as its client_id.
C16_BusyClientHasLiveTask ==
    \A k \in DOMAIN clients :
      clients[k].status = "busy"
      => /\ clients[k].current_task_id \in DOMAIN tasks
         /\ tasks[clients[k].current_task_id].status = "pending"
         /\ tasks[clients[k].current_task_id].client_id = k

\* C16 witness: aged tasks have been pruned, among them one whose call was
\* still in flight, and the client is busy with a task dispatched since
C16_Witness ==
    /\ \E t \in DOMAIN detached : detached[t].image_urls = <<>>
    /\ \E k \in DOMAIN clients :
         /\ clients[k].status = "busy"
         /\ clients[k].current_task_id \in DOMAIN tasks
         /\ tasks[clients[k].current_task_id].status = "pending"

\* C12: under the fair pruning specification a client that is busy is later
\* idle or gone from the registry, whichever way the call that bound it ends:
\* success, timeout, failed send, disconnect, cancellation, internal error or
\* its task missing from the store.
C12_BusyClientIsReleased ==
    \A k \in 1..MaxConns :
      (k \in DOMAIN clients /\ clients[k].status = "busy")
        ~> (k \notin DOMAIN clients \/ clients[k].status = "idle")

\* C12 witness: a call whose task had been timed out and pruned while it
\* waited has found the task missing from the store and returned; the client,
\* registered and open, was bound again meanwhile and has been released since
C12_Witness ==
    /\ \E t \in DOMAIN detached :
         /\ returned.task = t
         /\ returned.value = TimeoutError(<<>>)
         /\ detached[t].status = "timeout"
         /\ detached[t].client_id \in DOMAIN clients
         /\ conn[detached[t].client_id] = "open"
         /\ clients[detached[t].client_id] = IdleClient
         /\ \E u \in DOMAIN tasks : u > t /\ tasks[u].client_id = detached[t].client_id
    /\ \A d \in Calls : pc[d] = "idle"

\* the messages of the structured errors of draw_image
ErrorMessages ==
    { "Prompt cannot be empty", "No idle WebSocket clients available",
      "Failed to send task to client", "Task timeout", "Task error",
      "Task cancelled due to client disconnect" }

\* a success with its urls, or an error with one of the messages
StructuredResult(v) ==
    \/ /\ v.status = "success"
       /\ DOMAIN v = { "status", "image_urls" }
    \/ /\ v.status = "error"
       /\ "message" \in DOMAIN v
       /\ v.message \in ErrorMessages
       /\ DOMAIN v \subseteq { "status", "message", "received_urls" }

\* C13: under the fair specification every draw_image call that has started
\* returns, what a call returns is a success or a structured error, and the
\* caller that got it is ready to call again.
C13_EveryCallReturns ==
    /\ \A d \in Calls : (pc[d] # "idle") ~> (pc[d] = "idle")
    /\ [](returned # NoReturn => StructuredResult(returned.value))
    /\ [][ \A d \in Calls : (pc[d] # "idle" /\ pc'[d] = "idle") => returned' # NoReturn ]_vars

\* C13 witness: a call whose send was delayed has returned the timeout error
\* after the clock had passed MaxTime
C13_Witness ==
    /\ returned.task # NoTask
    /\ returned.value = TimeoutError(<<>>)
    /\ now > MaxTime
    /\ now - TaskObject(Ctx, returned.task).create_time > TaskTimeout

\* the connections whose websocket is OPEN
OpenConnections == { k \in DOMAIN conn : conn[k] = "open" }

\* C22 as stated: the registry holds exactly the clients whose connection is
\* open, so their numbers are equal.  (Refuted: a client whose connection has
\* closed stays registered until its handler reaches remove_client or a
\* draw_image call cleans it up.)
C22_RegistryIsOpenConnections ==
    /\ Cardinality(DOMAIN clients) = Cardinality(OpenConnections)
    /\ DOMAIN clients = OpenConnections

\* C22 amended: the registry holds every client whose connection is open and
\* none whose handler has ended; each client once, idle or busy; so the number
\* of clients lies between the number of open connections and the number of
\* connections whose handler has not ended.
C22_RegistryTracksConnections ==
    /\ OpenConnections \subseteq DOMAIN clients
    /\ DOMAIN clients \subseteq { k \in DOMAIN conn : conn[k] # "gone" }
    /\ Range(clientOrder) = DOMAIN clients
    /\ Len(clientOrder) = Cardinality(DOMAIN clients)
    /\ \A k \in DOMAIN clients : clients[k].status \in { "idle", "busy" }
    /\ Cardinality(OpenConnections) <= Cardinality(DOMAIN clients)
    /\ Cardinality(DOMAIN clients) <= Cardinality({ k \in DOMAIN conn : conn[k] # "gone" })

\* C22 witness: of three connections one is open with its client busy, one
\* has closed and its client is still registered, and one handler has ended
C22_Witness ==
    /\ Len(conn) = 3
    /\ \E i, j, k \in DOMAIN conn :
         /\ conn[i] = "open" /\ i \in DOMAIN clients /\ clients[i].status = "busy"
         /\ conn[j] = "closed" /\ j \in DOMAIN clients
         /\ conn[k] = "gone" /\ k \notin DOMAIN clients

\* a second run of housekeeping, or of one of its steps, with no event in
\* between changes nothing, and a client that housekeeping or an earlier
\* remove_client took out is removed again without effect
HousekeepingIdempotent ==
    LET h == Housekeeping(Ctx)
    IN  /\ Housekeeping(h) = h
        /\ check_timeouts(check_timeouts(Ctx)) = check_timeouts(Ctx)
        /\ cleanup_disconnected_clients(cleanup_disconnected_clients(Ctx))
             = cleanup_disconnected_clients(Ctx)
        /\ cleanup_old_tasks(cleanup_old_tasks(Ctx)) = cleanup_old_tasks(Ctx)
        /\ \A k \in DOMAIN conn :
             /\ remove_client(remove_client(Ctx, k), k) = remove_client(Ctx, k)
             /\ k \notin DOMAIN h.clients => remove_client(h, k) = h
             /\ Housekeeping(remove_client(h, k)) = remove_client(h, k)

\* the disconnect handler reaches remove_client after housekeeping has already
\* removed its client: the step ends the handler and changes nothing else
RemovalOfRemovedIsNoOp ==
    \A k \in DOMAIN conn :
        HandlerEnd(k) /\ k \notin DOMAIN clients => UNCHANGED appVars

\* C21: housekeeping (check_timeouts, cleanup_disconnected_clients,
\* cleanup_old_tasks above the high-water mark) is idempotent: run again with
\* no event in between it leaves the registry and the task store as the first
\* run left them; and removing a client that another run or the disconnect
\* handler already removed is a no-op.
C21_HousekeepingIdempotent ==
    /\ []HousekeepingIdempotent
    /\ [][RemovalOfRemovedIsNoOp]_vars

\* C21 witness: housekeeping has timed a task out, pruned the aged tasks and
\* removed the client of a closed connection whose handler has yet to end
C21_Witness ==
    /\ \E k \in DOMAIN conn : conn[k] = "closed" /\ k \notin DOMAIN clients
    /\ \E t \in DOMAIN detached : detached[t].status = "timeout"
    /\ Cardinality(DOMAIN detached) > HighWater

====
